---- MODULE Spec2Model ----
(***************************************************************************)
(* Threaded mark-compact collector of the Motoko RTS                       *)
(* (rts/motoko-rts/src/gc/mark_compact.rs).                                *)
(*                                                                         *)
(* Memory is a map from word-aligned byte addresses to 32-bit words.  The  *)
(* static part holds the root array, the root MutBoxes and the             *)
(* continuation-table pointer cell; the dynamic heap starts at heap_base   *)
(* and is split into pages.                                                *)
(***************************************************************************)
EXTENDS Integers, Sequences, FiniteSets, TLC

(* ---------------------------------------------------------------------- *)
(* Program constants (crate::constants, crate::types)                     *)
(* ---------------------------------------------------------------------- *)
\* The collector depends on the tags only through their order: every tag
\* is at most TAG_NULL and every address is above it.
WORD_SIZE == 4

TAG_OBJECT == 1

TAG_ARRAY == 3

TAG_MUTBOX == 6

TAG_NULL == 15

(* ---------------------------------------------------------------------- *)
(* Bounds of the model                                                    *)
(* ---------------------------------------------------------------------- *)
\* number of static root MutBoxes in the root array
NumRoots == 1

\* number of pages of the space
NumPages == 2

\* words of content per page
PageWords == 2

(* ---------------------------------------------------------------------- *)
(* Pointers                                                               *)
(* ---------------------------------------------------------------------- *)
\* wrapping_sub(1) and wrapping_add(1) on 32-bit words; every word of the
\* model is far below 2^32 - 1 and skew is applied to addresses only, so
\* neither wraps
skew(p) == p - 1

unskew(v) == v + 1

is_tagged_scalar(v) == v % 2 = 0

(* ---------------------------------------------------------------------- *)
(* Address layout                                                         *)
(* ---------------------------------------------------------------------- *)
\* the lowest address in use; every address is above TAG_NULL
STATIC_BASE == TAG_NULL + 1

\* the static root array: header, length, NumRoots elements
static_roots == skew(STATIC_BASE)

RootMutBox(i) == STATIC_BASE + (2 + NumRoots) * WORD_SIZE + (i - 1) * 2 * WORD_SIZE

continuation_table_ptr_loc == RootMutBox(NumRoots + 1)

heap_base == continuation_table_ptr_loc + WORD_SIZE

Pages == 1..NumPages

contents_start(p) == heap_base + (p - 1) * PageWords * WORD_SIZE

page_end(p) == contents_start(p) + PageWords * WORD_SIZE

HeapEnd == page_end(NumPages)

Addrs == {a \in STATIC_BASE..(HeapEnd - 1) : a % WORD_SIZE = 0}

get_address_page(a) == CHOOSE p \in Pages : contents_start(p) <= a /\ a < page_end(p)

(* ---------------------------------------------------------------------- *)
(* Object layouts (crate::types, crate::visitor)                          *)
(* ---------------------------------------------------------------------- *)
\* size of an object in words: a MutBox is header + field, an Array is
\* header + length + elements
object_size(m, p) ==
    IF m[p] = TAG_MUTBOX THEN 2 ELSE 2 + m[p + WORD_SIZE]

\* the addresses of the fields of the object at obj with layout tag, in
\* visiting order
FieldAddrs(m, obj, tag) ==
    IF tag = TAG_MUTBOX
    THEN <<obj + WORD_SIZE>>
    ELSE IF tag = TAG_ARRAY
    THEN [i \in 1..m[obj + WORD_SIZE] |-> obj + (1 + i) * WORD_SIZE]
    ELSE <<>>

pointer_to_dynamic_heap(m, field_addr, hb) ==
    /\ ~is_tagged_scalar(m[field_addr])
    /\ unskew(m[field_addr]) >= hb

(* ---------------------------------------------------------------------- *)
(* Memory the collector can be started on                                 *)
(* ---------------------------------------------------------------------- *)
Kinds ==
    {[tag |-> TAG_MUTBOX, len |-> 1]}
        \cup {[tag |-> TAG_ARRAY, len |-> n] : n \in 1..(PageWords - 2)}

KindWords(k) == IF k.tag = TAG_MUTBOX THEN 2 ELSE 2 + k.len

RECURSIVE PageLayouts(_)
PageLayouts(w) ==
    {<<>>} \cup UNION {{<<k>> \o rest : rest \in PageLayouts(w - KindWords(k))} :
                        k \in {kk \in Kinds : KindWords(kk) <= w}}

RECURSIVE LayoutWords(_)
LayoutWords(l) == IF l = <<>> THEN 0 ELSE KindWords(Head(l)) + LayoutWords(Tail(l))

\* the objects of a heap layout: where each starts and its kind
LayoutObjs(lay) ==
    {[addr |-> contents_start(p) + WORD_SIZE * LayoutWords(SubSeq(lay[p], 1, i - 1)),
      kind |-> lay[p][i]] : <<p, i>> \in {pi \in Pages \X (1..PageWords) : pi[2] <= Len(lay[pi[1]])}}

\* the pointer-sized slots of a heap layout and of the root cells
LayoutSlots(lay) ==
    UNION {{o.addr + (IF o.kind.tag = TAG_MUTBOX THEN 1 ELSE 1 + i) * WORD_SIZE :
              i \in 1..o.kind.len} : o \in LayoutObjs(lay)}

RootSlots == {RootMutBox(i) + WORD_SIZE : i \in 1..NumRoots}

\* values a slot can hold: a tagged scalar (0 or 2), a pointer to a static
\* object, or a pointer to a dynamic object
SlotValues(lay) == {0, 2, static_roots} \cup {skew(o.addr) : o \in LayoutObjs(lay)}

\* the continuation table pointer is SkewedPtr(0) until the table exists
TableValues(lay) == {0} \cup {skew(o.addr) : o \in LayoutObjs(lay)}

BuildMem(lay, fv, ct) ==
    LET objs == LayoutObjs(lay)
        headers == {o.addr : o \in objs}
        lengths == {o.addr + WORD_SIZE : o \in {q \in objs : q.kind.tag = TAG_ARRAY}}
    IN  [a \in Addrs |->
            IF a = STATIC_BASE THEN TAG_ARRAY
            ELSE IF a = STATIC_BASE + WORD_SIZE THEN NumRoots
            ELSE IF a < RootMutBox(1)
            THEN skew(RootMutBox((a - STATIC_BASE) \div WORD_SIZE - 1))
            ELSE IF a = continuation_table_ptr_loc THEN ct
            ELSE IF a \in DOMAIN fv THEN fv[a]
            ELSE IF a < heap_base THEN TAG_MUTBOX
            ELSE IF a \in headers
            THEN (CHOOSE o \in objs : o.addr = a).kind.tag
            ELSE IF a \in lengths
            THEN (CHOOSE o \in objs : o.addr + WORD_SIZE = a).kind.len
            ELSE 0]

HeapLayouts == [Pages -> PageLayouts(PageWords)]

\* memory before a cycle: any layout of the pages, any values in the
\* fields, the root cells and the continuation table cell
IsHeap(m) ==
    \E lay \in HeapLayouts :
        \E ct \in TableValues(lay) :
            \E fv \in [LayoutSlots(lay) \cup RootSlots -> SlotValues(lay)] :
                m = BuildMem(lay, fv, ct)

(* ---------------------------------------------------------------------- *)
(* State                                                                  *)
(* ---------------------------------------------------------------------- *)
VARIABLES
    pc,          \* position in mark_compact
    mem,         \* memory: static part and dynamic heap
    mem0,        \* memory when the cycle started
    bitmaps,     \* per page: <<>> (no bitmap) or <<the set of word indices whose bit is set>>
    page,        \* cursor of the bitmap allocation loop
    stack,       \* entries of the mark stack, <<address, tag>>, top last
    stack_pages, \* "none", "live" or "freed": the backing pages of the mark stack
    root_i,      \* index of the root array loop in mark_static_roots
    pushed,      \* log of the entries pushed onto the mark stack, in order
    t_obj,       \* the object a single thread/unthread or mark_fields call is about
    t_new,       \* the new location handed to unthread
    t_fields,    \* the fields handed to thread
    t_todo       \* the fields not yet handed to thread

vars == <<pc, mem, mem0, bitmaps, page, stack, stack_pages, root_i, pushed,
          t_obj, t_new, t_fields, t_todo>>

single == <<t_obj, t_new, t_fields, t_todo>>

(* ---------------------------------------------------------------------- *)
(* Thread / unthread                                                      *)
(* ---------------------------------------------------------------------- *)
\* thread that does not save the pointed object's header in the field
thread_drops_header(m, field) ==
    LET pointed == unskew(m[field])
    IN  [[m EXCEPT ![field] = 0] EXCEPT ![pointed] = field]

\* Store pointed object's header in the field, field address in the
\* pointed object's header
thread(m, field) ==
    LET pointed == unskew(m[field])
        pointed_header == m[pointed]
    IN  [[m EXCEPT ![field] = pointed_header] EXCEPT ![pointed] = field]

RECURSIVE unthread_loop(_, _, _)
unthread_loop(m, header, new_loc) ==
    IF header > TAG_NULL
    THEN LET tmp == m[header]
         IN  unthread_loop([m EXCEPT ![header] = skew(new_loc)], tmp, new_loc)
    ELSE [mem |-> m, header |-> header]

\* unthread without the final store that restores the header
unthread_no_restore(m, obj, new_loc) ==
    unthread_loop(m, m[obj], new_loc).mem

unthread(m, obj, new_loc) ==
    LET r == unthread_loop(m, m[obj], new_loc)
    IN  [r.mem EXCEPT ![obj] = r.header]

(* ---------------------------------------------------------------------- *)
(* Marking                                                                *)
(* ---------------------------------------------------------------------- *)
\* The body that tests and sets the bit and pushes is commented out in the
\* source: the function reads the tag and the bitmap and returns.
mark_object(m, bm, stk, obj) ==
    LET obj_tag == m[unskew(obj)]
        obj_page == get_address_page(unskew(obj))
        obj_bitmap == bm[obj_page]
    IN  [bitmaps |-> bm, stack |-> stk]

\* mark_root_mutbox_fields testing only that the field holds a pointer, not
\* that it points into the dynamic heap
mark_root_mutbox_fields_any_pointer(m, bm, stk, mutbox) ==
    LET field_addr == mutbox + WORD_SIZE
    IN  IF ~is_tagged_scalar(m[field_addr])
        THEN [mem |-> thread(m, field_addr), bitmaps |-> bm, stack |-> stk]
        ELSE [mem |-> m, bitmaps |-> bm, stack |-> stk]

mark_root_mutbox_fields(m, bm, stk, mutbox) ==
    LET field_addr == mutbox + WORD_SIZE
    IN  IF pointer_to_dynamic_heap(m, field_addr, heap_base)
        THEN LET r == mark_object(m, bm, stk, m[field_addr])
             IN  [mem |-> thread(m, field_addr), bitmaps |-> r.bitmaps, stack |-> r.stack]
        ELSE [mem |-> m, bitmaps |-> bm, stack |-> stk]

\* the callback of mark_fields on one field
mark_field(s, obj, field_addr) ==
    LET field_value == s.mem[field_addr]
        r == mark_object(s.mem, s.bitmaps, s.stack, field_value)
    IN  [mem |-> IF unskew(field_value) < obj THEN thread(s.mem, field_addr) ELSE s.mem,
         bitmaps |-> r.bitmaps,
         stack |-> r.stack]

RECURSIVE mark_fields_from(_, _, _, _)
mark_fields_from(s, obj, fields, i) ==
    IF i > Len(fields) THEN s
    ELSE mark_fields_from(
            IF pointer_to_dynamic_heap(s.mem, fields[i], heap_base)
            THEN mark_field(s, obj, fields[i])
            ELSE s,
            obj, fields, i + 1)

mark_fields(m, bm, stk, obj, obj_tag) ==
    mark_fields_from([mem |-> m, bitmaps |-> bm, stack |-> stk], obj,
                     FieldAddrs(m, obj, obj_tag), 1)

(* ---------------------------------------------------------------------- *)
(* Compaction                                                             *)
(* ---------------------------------------------------------------------- *)
\* the body is todo!(): the call panics
update_refs(m, bm) == [panicked |-> TRUE, mem |-> m]

RECURSIVE thread_fwd_from(_, _, _)
thread_fwd_from(m, fields, i) ==
    IF i > Len(fields) THEN m
    ELSE thread_fwd_from(
            IF /\ pointer_to_dynamic_heap(m, fields[i], heap_base)
               /\ unskew(m[fields[i]]) > fields[i]
            THEN thread(m, fields[i])
            ELSE m,
            fields, i + 1)

thread_fwd_pointers(m, obj) == thread_fwd_from(m, FieldAddrs(m, obj, m[obj]), 1)

(* ---------------------------------------------------------------------- *)
(* mark_compact, step by step                                             *)
(* ---------------------------------------------------------------------- *)
Init ==
    /\ IsHeap(mem)
    /\ mem0 = mem
    /\ pc = "alloc_bitmaps"
    /\ bitmaps = [p \in Pages |-> <<>>]
    /\ page = 1
    /\ stack = <<>>
    /\ stack_pages = "none"
    /\ root_i = 0
    /\ pushed = <<>>
    /\ t_obj = 0
    /\ t_new = 0
    /\ t_fields = {}
    /\ t_todo = {}

\* the entries a step pushed: what the stack holds above its old contents
Pushes(before, after) == SubSeq(after, Len(before) + 1, Len(after))

\* one iteration of the loop that attaches a zeroed bitmap to each page
AllocBitmap ==
    /\ pc = "alloc_bitmaps"
    /\ bitmaps' = [bitmaps EXCEPT ![page] = <<{}>>]
    /\ IF page < NumPages
       THEN page' = page + 1 /\ pc' = pc
       ELSE page' = page /\ pc' = "new_stack"
    /\ UNCHANGED <<mem, mem0, stack, stack_pages, root_i, pushed, single>>

NewMarkStack ==
    /\ pc = "new_stack"
    /\ stack' = <<>>
    /\ stack_pages' = "live"
    /\ pc' = "mark_static_roots"
    /\ UNCHANGED <<mem, mem0, bitmaps, page, root_i, pushed, single>>

\* the root array loop stopping one element early
MarkStaticRoot_short ==
    /\ pc = "mark_static_roots"
    /\ LET root_array == unskew(static_roots)
       IN  IF root_i + 1 < mem[root_array + WORD_SIZE]
           THEN LET obj == unskew(mem[root_array + (2 + root_i) * WORD_SIZE])
                    r == mark_root_mutbox_fields(mem, bitmaps, stack, obj)
                IN  /\ mem' = r.mem
                    /\ bitmaps' = r.bitmaps
                    /\ stack' = r.stack
                    /\ pushed' = pushed \o Pushes(stack, r.stack)
                    /\ root_i' = root_i + 1
                    /\ pc' = pc
           ELSE /\ pc' = "continuation_table"
                /\ UNCHANGED <<mem, bitmaps, stack, root_i, pushed>>
    /\ UNCHANGED <<mem0, page, stack_pages, single>>

\* one iteration of the loop over the root array, or its exit
MarkStaticRoot ==
    /\ pc = "mark_static_roots"
    /\ LET root_array == unskew(static_roots)
       IN  IF root_i < mem[root_array + WORD_SIZE]
           THEN LET obj == unskew(mem[root_array + (2 + root_i) * WORD_SIZE])
                    r == mark_root_mutbox_fields(mem, bitmaps, stack, obj)
                IN  /\ mem' = r.mem
                    /\ bitmaps' = r.bitmaps
                    /\ stack' = r.stack
                    /\ pushed' = pushed \o Pushes(stack, r.stack)
                    /\ root_i' = root_i + 1
                    /\ pc' = pc
           ELSE /\ pc' = "continuation_table"
                /\ UNCHANGED <<mem, bitmaps, stack, root_i, pushed>>
    /\ UNCHANGED <<mem0, page, stack_pages, single>>

MarkContinuationTable ==
    /\ pc = "continuation_table"
    /\ IF unskew(mem[continuation_table_ptr_loc]) >= heap_base
       THEN LET r == mark_object(mem, bitmaps, stack, mem[continuation_table_ptr_loc])
            IN  /\ mem' = thread(mem, continuation_table_ptr_loc)
                /\ bitmaps' = r.bitmaps
                /\ stack' = r.stack
                /\ pushed' = pushed \o Pushes(stack, r.stack)
       ELSE UNCHANGED <<mem, bitmaps, stack, pushed>>
    /\ pc' = "mark_stack"
    /\ UNCHANGED <<mem0, page, stack_pages, root_i, single>>

\* one iteration of the drain loop of mark_stack, or its exit
MarkStackStep ==
    /\ pc = "mark_stack"
    /\ IF stack = <<>>
       THEN /\ pc' = "update_refs"
            /\ UNCHANGED <<mem, bitmaps, stack, pushed>>
       ELSE LET top == stack[Len(stack)]
                rest == SubSeq(stack, 1, Len(stack) - 1)
                r == mark_fields(mem, bitmaps, rest, top[1], top[2])
            IN  /\ mem' = r.mem
                /\ bitmaps' = r.bitmaps
                /\ stack' = r.stack
                /\ pushed' = pushed \o Pushes(rest, r.stack)
                /\ pc' = pc
    /\ UNCHANGED <<mem0, page, stack_pages, root_i, single>>

\* update_refs, then stack.free() and the loop that frees the bitmaps
UpdateRefsAndFree ==
    /\ pc = "update_refs"
    /\ LET r == update_refs(mem, bitmaps)
       IN  IF r.panicked
           THEN /\ pc' = "panicked"
                /\ mem' = r.mem
                /\ UNCHANGED <<bitmaps, stack, stack_pages>>
           ELSE /\ pc' = "done"
                /\ mem' = r.mem
                /\ stack' = <<>>
                /\ stack_pages' = "freed"
                /\ bitmaps' = [p \in Pages |-> <<>>]
    /\ UNCHANGED <<mem0, page, root_i, pushed, single>>

Next ==
    \/ AllocBitmap
    \/ NewMarkStack
    \/ MarkStaticRoot
    \/ MarkContinuationTable
    \/ MarkStackStep
    \/ UpdateRefsAndFree

Spec == Init /\ [][Next]_vars

(* ---------------------------------------------------------------------- *)
(* A single object: thread on its referrers, then unthread                *)
(* ---------------------------------------------------------------------- *)
\* the objects of the dynamic heap m, found by walking each page from its
\* start (a page's unused tail is zeroed)
RECURSIVE PageObjs(_, _, _)
PageObjs(m, a, end) ==
    IF a >= end \/ m[a] = 0 THEN {}
    ELSE {a} \cup PageObjs(m, a + WORD_SIZE * object_size(m, a), end)

HeapObjs(m) == UNION {PageObjs(m, contents_start(p), page_end(p)) : p \in Pages}

\* the fields of object o that the field visitor hands to its callback
PointerFields(m, o) ==
    {f \in {FieldAddrs(m, o, m[o])[i] : i \in DOMAIN FieldAddrs(m, o, m[o])} :
        pointer_to_dynamic_heap(m, f, heap_base)}

\* every cell that references object o: root cells, the continuation table
\* cell and fields of heap objects
Referrers(m, o) ==
    {f \in RootSlots \cup {continuation_table_ptr_loc}
            \cup UNION {PointerFields(m, q) : q \in HeapObjs(m)} :
        m[f] = skew(o)}

\* one object, and cells that either reference it or hold a scalar; thread
\* and unthread read and write no other word
InitThread ==
    /\ \E lay \in HeapLayouts :
        \E o \in LayoutObjs(lay) :
            \E ct \in {0, skew(o.addr)} :
                \E fv \in [LayoutSlots(lay) \cup RootSlots -> {0, skew(o.addr)}] :
                    /\ mem = BuildMem(lay, fv, ct)
                    /\ t_obj = o.addr
    /\ mem0 = mem
    /\ pc = "thread"
    /\ bitmaps = [p \in Pages |-> <<>>]
    /\ page = 1
    /\ stack = <<>>
    /\ stack_pages = "none"
    /\ root_i = 0
    /\ pushed = <<>>
    /\ t_new \in {contents_start(p) : p \in Pages} \cup {t_obj}
    /\ t_fields \in SUBSET Referrers(mem, t_obj)
    /\ t_todo = t_fields

\* thread(field) on one of the fields, in any order
ThreadCall ==
    /\ pc = "thread"
    /\ \E f \in t_todo :
        /\ mem' = thread(mem, f)
        /\ t_todo' = t_todo \ {f}
    /\ UNCHANGED <<pc, mem0, bitmaps, page, stack, stack_pages, root_i, pushed,
                   t_obj, t_new, t_fields>>

\* unthread(obj, new_loc) once every field has been threaded
UnthreadCall ==
    /\ pc = "thread"
    /\ t_todo = {}
    /\ mem' = unthread(mem, t_obj, t_new)
    /\ pc' = "unthreaded"
    /\ UNCHANGED <<mem0, bitmaps, page, stack, stack_pages, root_i, pushed, single>>

NextThread ==
    \/ ThreadCall
    \/ UnthreadCall

SpecThread == InitThread /\ [][NextThread]_vars

(* ---------------------------------------------------------------------- *)
(* A single object: one call of mark_fields                               *)
(* ---------------------------------------------------------------------- *)
InitMarkFields ==
    /\ IsHeap(mem)
    /\ mem0 = mem
    /\ pc = "mark_fields"
    /\ bitmaps = [p \in Pages |-> <<{}>>]
    /\ page = NumPages
    /\ stack = <<>>
    /\ stack_pages = "live"
    /\ root_i = 0
    /\ pushed = <<>>
    /\ t_obj \in HeapObjs(mem)
    /\ t_new = 0
    /\ t_fields = {}
    /\ t_todo = {}

\* the worklist drain visits t_obj with the tag its header holds
MarkFieldsCall ==
    /\ pc = "mark_fields"
    /\ LET r == mark_fields(mem, bitmaps, stack, t_obj, mem[t_obj])
       IN  /\ mem' = r.mem
           /\ bitmaps' = r.bitmaps
           /\ stack' = r.stack
           /\ pushed' = pushed \o Pushes(stack, r.stack)
    /\ pc' = "marked"
    /\ UNCHANGED <<mem0, page, stack_pages, root_i, single>>

\* the compactor threads the forward pointers of t_obj, which it has left
\* where it was (p_new = p)
ThreadFwdCall ==
    /\ pc = "marked"
    /\ mem' = thread_fwd_pointers(mem, t_obj)
    /\ pc' = "fwd_threaded"
    /\ UNCHANGED <<mem0, bitmaps, page, stack, stack_pages, root_i, pushed, single>>

NextMarkFields ==
    \/ MarkFieldsCall
    \/ ThreadFwdCall

SpecMarkFields == InitMarkFields /\ [][NextMarkFields]_vars

(* ---------------------------------------------------------------------- *)
(* What the cycle is meant to achieve, stated over the heap before it     *)
(* ---------------------------------------------------------------------- *)
\* the objects the root cells and the continuation table cell reference
RootTargets(m) ==
    {unskew(m[f]) : f \in {g \in RootSlots : pointer_to_dynamic_heap(m, g, heap_base)}}
        \cup (IF unskew(m[continuation_table_ptr_loc]) >= heap_base
              THEN {unskew(m[continuation_table_ptr_loc])} ELSE {})

RECURSIVE Reach(_, _)
Reach(m, S) ==
    LET S2 == S \cup UNION {{unskew(m[f]) : f \in PointerFields(m, o)} : o \in S}
    IN  IF S2 = S THEN S ELSE Reach(m, S2)

\* the objects reachable from the roots before the cycle
Reachable0 == Reach(mem0, RootTargets(mem0))

RECURSIVE WordsOf(_, _)
WordsOf(m, S) ==
    IF S = {} THEN 0
    ELSE LET o == CHOOSE x \in S : TRUE
         IN  object_size(m, o) + WordsOf(m, S \ {o})

\* where a reachable object belongs after sliding: heap_base plus the sizes
\* of the reachable objects below it
NewAddr(o) == heap_base + WORD_SIZE * WordsOf(mem0, {q \in Reachable0 : q < o})

\* the objects whose liveness bit is set
Marked ==
    UNION {IF bitmaps[p] = <<>> THEN {}
           ELSE {contents_start(p) + WORD_SIZE * i : i \in bitmaps[p][1]} : p \in Pages}

\* the call of mark_compact has stopped running
Ended == pc \in {"done", "panicked"}

\* the links of the thread chain that starts at header value h
RECURSIVE Chain(_, _)
Chain(m, h) == IF h > TAG_NULL THEN {h} \cup Chain(m, m[h]) ELSE {}

(* ---------------------------------------------------------------------- *)
(* Properties                                                             *)
(* ---------------------------------------------------------------------- *)

\* C5 Threading symmetry: after thread on each of the N fields that
\* reference one object, in any order, and then unthread(object, X), every
\* one of the N fields holds skew(X) and the object's header holds the tag
\* it had before the first thread.
ThreadingSymmetry ==
    pc = "unthreaded" =>
        /\ \A f \in t_fields : mem[f] = skew(t_new)
        /\ mem[t_obj] = mem0[t_obj]
        /\ mem[t_obj] <= TAG_NULL

\* C5 witness: an object with several threaded referrers, one of them a
\* field of a heap object, unthreaded to a location other than its own
ThreadingSymmetryWitness ==
    /\ pc = "unthreaded"
    /\ Cardinality(t_fields) >= 2
    /\ \E f \in t_fields : f >= heap_base
    /\ t_new # t_obj

\* C1 Reference integrity: when the cycle has ended, every pointer field
\* of a surviving object A that referenced a surviving object B before the
\* cycle holds the skewed new address of B.
ReferenceIntegrity ==
    Ended =>
        \A a \in Reachable0 : \A f \in PointerFields(mem0, a) :
            mem[NewAddr(a) + (f - a)] = skew(NewAddr(unskew(mem0[f])))

\* C2 Liveness correctness: when marking ends, the objects whose liveness
\* bit is set are exactly the objects reachable from the static root cells
\* and the continuation-table cell.
LivenessCorrectness ==
    pc = "update_refs" => Marked = Reachable0

\* C3 Header restoration: when the cycle has ended, the header of every
\* surviving object is the tag it had before the cycle, a value <= TAG_NULL.
HeaderRestoration ==
    Ended =>
        \A o \in Reachable0 :
            /\ mem[NewAddr(o)] = mem0[o]
            /\ mem[NewAddr(o)] <= TAG_NULL

\* C4 Compaction density: when the cycle has ended, the survivors lie in
\* address order in one gap-free region that starts at heap_base: at
\* heap_base plus the sizes of the survivors that preceded it stands an
\* object of the survivor's layout and size.
CompactionDensity ==
    Ended =>
        \A o \in Reachable0 :
            /\ mem[NewAddr(o)] \in {TAG_MUTBOX, TAG_ARRAY}
            /\ object_size(mem, NewAddr(o)) = object_size(mem0, o)
            /\ \A w \in 1..(object_size(mem0, o) - 1) :
                   is_tagged_scalar(mem0[o + w * WORD_SIZE]) =>
                       mem[NewAddr(o) + w * WORD_SIZE] = mem0[o + w * WORD_SIZE]

\* C6 Cycle completion and teardown: a started cycle ends by returning
\* normally, with the mark stack freed and no bitmap attached to any page.
CycleCompletes ==
    Ended =>
        /\ pc = "done"
        /\ stack_pages = "freed"
        /\ \A p \in Pages : bitmaps[p] = <<>>

\* C7 Marks once: when marking has ended, every reachable object has been
\* pushed onto the mark stack exactly once.
MarksOnce ==
    pc = "update_refs" =>
        \A o \in Reachable0 :
            Cardinality({i \in DOMAIN pushed : pushed[i][1] = o}) = 1

\* every root cell has been scanned (the ones that pointed into the dynamic
\* heap are threaded) and the mark stack is drained
MarkingFinished ==
    /\ root_i = mem0[unskew(static_roots) + WORD_SIZE]
    /\ \A f \in RootSlots : pointer_to_dynamic_heap(mem0, f, heap_base) => mem[f] # mem0[f]
    /\ unskew(mem0[continuation_table_ptr_loc]) >= heap_base =>
           mem[continuation_table_ptr_loc] # mem0[continuation_table_ptr_loc]
    /\ stack = <<>>

\* C8 Phase ordering: the step that enters compaction (the call of
\* update_refs) is taken only when the root scan has finished and the mark
\* stack is empty, and from that step on no liveness bit is set or cleared
\* and nothing is pushed.
PhaseOrdering ==
    [][/\ (pc = "update_refs" /\ pc' # pc) => MarkingFinished
       /\ (pc = "update_refs" \/ Ended) =>
              /\ pushed' = pushed
              /\ \A p \in Pages : bitmaps'[p] \in {bitmaps[p], <<>>}]_vars

\* C8 witness: compaction has been entered after a root scan that threaded
\* both a static root cell and the continuation-table cell
PhaseOrderingWitness ==
    /\ Ended
    /\ MarkingFinished
    /\ \E f \in RootSlots : pointer_to_dynamic_heap(mem0, f, heap_base)
    /\ unskew(mem0[continuation_table_ptr_loc]) >= heap_base

\* C9 Idempotence of a no-garbage cycle: when every object is reachable and
\* the objects lie contiguously from heap_base, the ended cycle leaves
\* every heap word and root cell as it was.
NoGarbageIdempotence ==
    (/\ Ended
     /\ HeapObjs(mem0) # {}
     /\ HeapObjs(mem0) = Reachable0
     /\ \A o \in Reachable0 : NewAddr(o) = o)
        => mem = mem0

\* C10 Backward and self references are threaded during marking: after the
\* drain has visited X, every pointer field of X whose target is X itself
\* or an object below X is a link of the target's thread chain.
BackwardAndSelfThreaded ==
    pc = "marked" =>
        \A f \in PointerFields(mem0, t_obj) :
            unskew(mem0[f]) <= t_obj => f \in Chain(mem, mem[unskew(mem0[f])])

\* the part of C10 about strictly backward references
BackwardThreaded ==
    pc = "marked" =>
        \A f \in PointerFields(mem0, t_obj) :
            unskew(mem0[f]) < t_obj => f \in Chain(mem, mem[unskew(mem0[f])])

\* C11 Each reference between two distinct live objects is threaded exactly
\* once: when marking has ended, a pointer field of live A that references
\* a different live B is a link of B's thread chain iff B lies below A (the
\* remaining ones are left to thread_fwd_pointers).
ThreadedByMarkingIffBackward ==
    pc = "update_refs" =>
        \A a \in Reachable0 : \A f \in PointerFields(mem0, a) :
            LET b == unskew(mem0[f])
            IN  b # a => ((b < a) <=> (f \in Chain(mem, mem[b])))

\* the part of C11 about one call of mark_fields: it threads a field that
\* references a different object iff the target lies below the object
MarkFieldsThreadsIffBackward ==
    pc = "marked" =>
        \A f \in PointerFields(mem0, t_obj) :
            LET b == unskew(mem0[f])
            IN  b # t_obj => ((b < t_obj) <=> (f \in Chain(mem, mem[b])))

\* the part of C11 about thread_fwd_pointers on an object that has not
\* moved: it threads exactly the fields mark_fields left alone, so that
\* every field that references a different object is threaded once
ThreadFwdThreadsTheRest ==
    pc = "fwd_threaded" =>
        \A f \in PointerFields(mem0, t_obj) :
            LET b == unskew(mem0[f])
            IN  b # t_obj =>
                    /\ f \in Chain(mem, mem[b])
                    /\ mem[f] # mem0[f]

\* the root cells that pointed into the dynamic heap before the cycle
HeapRootCells ==
    {f \in RootSlots : pointer_to_dynamic_heap(mem0, f, heap_base)}
        \cup (IF unskew(mem0[continuation_table_ptr_loc]) >= heap_base
              THEN {continuation_table_ptr_loc} ELSE {})

\* C12 Root update: when the cycle has ended, every static root cell and the
\* continuation-table cell that pointed into the dynamic heap holds the
\* skewed new address of the object it referenced.
RootUpdate ==
    Ended =>
        \A f \in HeapRootCells : mem[f] = skew(NewAddr(unskew(mem0[f])))

\* C13 Worklist entries carry real tags: every pushed entry carries the
\* object's original tag, and no object's header holds a thread link
\* unless its liveness bit is set.
RealTagsOnWorklist ==
    /\ \A i \in DOMAIN pushed :
           /\ pushed[i][2] = mem0[pushed[i][1]]
           /\ pushed[i][2] <= TAG_NULL
    /\ \A o \in HeapObjs(mem0) : mem[o] > TAG_NULL => o \in Marked

\* C16 Static memory frame: a word below heap_base differs from its value
\* before the cycle only if it is the field of a root cell, or the
\* continuation-table cell, that pointed into the dynamic heap.
StaticFrame ==
    \A a \in Addrs : (a < heap_base /\ mem[a] # mem0[a]) => a \in HeapRootCells

\* C16 witness: the cycle has ended, a root cell that pointed at a static
\* object is untouched and a cell that pointed into the dynamic heap has
\* been written
StaticFrameWitness ==
    /\ Ended
    /\ \E f \in RootSlots : mem0[f] = static_roots /\ mem[f] = mem0[f]
    /\ \E f \in HeapRootCells : mem[f] # mem0[f]

\* the list that starts at header value h, followed until a value that is
\* not above TAG_NULL: its links in order, the value that ends it, and
\* whether every link is a word of memory that occurs once
RECURSIVE ChainWalk(_, _, _)
ChainWalk(m, h, links) ==
    IF h <= TAG_NULL THEN [ok |-> TRUE, links |-> links, end |-> h]
    ELSE IF h \notin Addrs \/ \E i \in DOMAIN links : links[i] = h
    THEN [ok |-> FALSE, links |-> links, end |-> h]
    ELSE ChainWalk(m, m[h], Append(links, h))

\* the chain of object o is finite and acyclic, its links are distinct
\* cells in `fields` that referenced o before, and it ends in o's original
\* tag, which the assertion of unthread accepts
WellFormedChain(o, fields) ==
    LET w == ChainWalk(mem, mem[o], <<>>)
    IN  /\ w.ok
        /\ {w.links[i] : i \in DOMAIN w.links} = fields
        /\ \A i \in DOMAIN w.links :
               w.links[i] > TAG_NULL /\ mem0[w.links[i]] = skew(o)
        /\ w.end = mem0[o]
        /\ TAG_OBJECT <= w.end /\ w.end <= TAG_NULL

\* C14 Thread chains are well formed when consumed: until unthread is
\* called, the chain at the object's header consists of exactly the fields
\* threaded so far and ends in the original tag; after unthread the header
\* satisfies TAG_OBJECT <= header <= TAG_NULL.
ChainsWellFormed ==
    /\ pc = "thread" => WellFormedChain(t_obj, t_fields \ t_todo)
    /\ pc = "unthreaded" => TAG_OBJECT <= mem[t_obj] /\ mem[t_obj] <= TAG_NULL

\* C14 witness: unthread has consumed a chain of at least two links, one of
\* them a root cell or the continuation-table cell
ChainsWellFormedWitness ==
    /\ pc = "unthreaded"
    /\ Cardinality(t_fields) >= 2
    /\ \E f \in t_fields : f < heap_base

\* the chains the root scan builds in a cycle: at every step each object's
\* chain is well formed and made of root cells that referenced it
RootChainsWellFormed ==
    \A o \in HeapObjs(mem0) :
        WellFormedChain(o, {f \in HeapRootCells : mem0[f] = skew(o) /\ mem[f] # mem0[f]})

====
